---- MODULE Spec2Model ----
(***************************************************************************)
(* FromSprueToGlory: the server's credential and token lifecycle, the      *)
(* client that holds the tokens, and the items, projects and color-schemes *)
(* routers.                                                                *)
(* Each part has its own variables and its own specification.              *)
(*                                                                         *)
(* The state is the two tables the auth routes use (users, refresh_tokens),*)
(* the wall clock in whole seconds (the resolution of a JWT's iat/exp) and *)
(* one record per HTTP request in flight.  Every route handler is split at *)
(* the points where it gives up control: a database query executes at one  *)
(* moment, the code after its `await` runs at a later one.  A piece of a   *)
(* handler that reads neither the clock nor a table is folded into the     *)
(* step before it.                                                         *)
(***************************************************************************)
EXTENDS Integers, FiniteSets, Sequences, TLC

VARIABLES now, users, refreshTokens, nextId, req, env,
          client, calls, backend, logoutPosts,
          items, statusHistory, itemReqs,
          projects, projectReqs,
          schemes, schemeReqs

\* The variables of the server's credential lifecycle.
authVars == <<now, users, refreshTokens, nextId, req>>

\* The variables of the client: AuthService's storage and signals, the calls
\* going through JwtInterceptor, the server as the client meets it, and the
\* POST /auth/logout requests on their way.
clientVars == <<client, calls, backend, logoutPosts>>

\* The tables of /api/items and the requests to it.
itemVars == <<items, statusHistory, itemReqs>>

\* The table of /api/projects and the requests to it.
projectVars == <<projects, projectReqs>>

\* The tables of /api/color-schemes and the requests to it.
schemeVars == <<schemes, schemeReqs>>

\* What no route handler of the auth model writes.
restOfAuth == <<env, clientVars, itemVars, projectVars, schemeVars>>

\* What no step of the client writes.
restOfClient == <<authVars, env, itemVars, projectVars, schemeVars>>

\* What no handler of /api/items writes.
restOfItems == <<authVars, env, clientVars, projects, projectReqs, schemeVars>>

\* What no handler of /api/projects writes.
restOfProjects == <<authVars, env, clientVars, statusHistory, itemReqs, schemeVars>>

\* What no handler of /api/color-schemes writes.
restOfSchemes == <<authVars, env, clientVars, itemVars, projectVars>>

vars == <<authVars, env, clientVars, itemVars, projectVars, schemeVars>>

(* ------------------------------ bounds --------------------------------- *)

\* Number of HTTP requests a behaviour contains.
NumProcs == 3
\* Last clock second of a behaviour.
MaxTime == 2
\* Number of HttpClient calls the application makes in a behaviour.
NumCalls == 2
\* Number of requests to /api/items in a behaviour.
NumItemReqs == 3
\* Number of requests to /api/projects in a behaviour, and of requests to
\* /api/items beside them.
NumProjectReqs == 2
NumProjectItemReqs == 2
\* Number of requests to /api/color-schemes in a behaviour.
NumSchemeReqs == 3
\* Longest steps array of a color scheme payload, and its largest orderIndex.
MaxSteps == 2
MaxIndex == 3

Procs == 1..NumProcs

(* ----------------------- configuration (jwt.ts) ------------------------ *)

\* process.env as jwt.ts reads it when the module loads.  A variable that is
\* unset (or empty) has the value "".
UnsetEnv ==
    [JWT_SECRET |-> "", JWT_REFRESH_SECRET |-> "",
     JWT_EXPIRES_IN |-> "", JWT_REFRESH_EXPIRES_IN |-> ""]

\* A deployment that sets both secrets to one value.
SharedSecretEnv ==
    [UnsetEnv EXCEPT !.JWT_SECRET = "prod-secret", !.JWT_REFRESH_SECRET = "prod-secret"]

\* A deployment that shortens the refresh lifetime.
ShortRefreshEnv == [UnsetEnv EXCEPT !.JWT_REFRESH_EXPIRES_IN = "15m"]

\* The environments a server is started with.
Envs == {UnsetEnv, SharedSecretEnv, ShortRefreshEnv}

\* process.env.X || fallback
OrDefault(value, fallback) == IF value = "" THEN fallback ELSE value

\* A time span in clock ticks of the model: '15m' is the short one, the 7
\* days of '7d' (and of 7 * 24 * 60 * 60 * 1000 ms) the long one.
Ticks(span) == IF span = "15m" THEN 1 ELSE 2

JWT_SECRET == OrDefault(env.JWT_SECRET, "dev-secret-change-me")
JWT_REFRESH_SECRET == OrDefault(env.JWT_REFRESH_SECRET, "dev-refresh-secret-change-me")
JWT_EXPIRES_IN == Ticks(OrDefault(env.JWT_EXPIRES_IN, "15m"))
JWT_REFRESH_EXPIRES_IN == Ticks(OrDefault(env.JWT_REFRESH_EXPIRES_IN, "7d"))
\* Date.now() + 7 * 24 * 60 * 60 * 1000: the lifetime the routes store in the
\* table, whatever the environment says.
StoredRefreshLifetime == Ticks("7d")

(* ------------------------------ values --------------------------------- *)

\* A token string is determined by the key, the payload and the issued-at
\* second (HS256 is deterministic), so the record of those IS the string.
\* key = "absent": the field is missing from the request; key = "forged": a
\* non-empty string that no key of the server signed.
Absent == [key |-> "absent", userId |-> 0, email |-> "", iat |-> 0, exp |-> 0]
Forged == [key |-> "forged", userId |-> 0, email |-> "", iat |-> 0, exp |-> 0]

NoUser == [id |-> 0, email |-> "", passwordHash |-> ""]
NoRow == [id |-> 0, token |-> Absent, userId |-> 0, expiresAt |-> 0]
NoPayload == [userId |-> 0, email |-> ""]

\* Two addresses that differ in letter case only: two different strings to
\* z.string().email() and to the text column of the users table.
ValidEmails == {"a@x.com", "A@x.com"}
\* "pw72bytes+A" and "pw72bytes+B" agree on their first 72 bytes and differ
\* after them.
ValidPasswords == {"Secret123!", "pw72bytes+A", "pw72bytes+B"}
\* The bodies the clients send: well-formed ones, one with a malformed email
\* and one with a password shorter than 8.
Bodies ==
    {[email |-> "a@x.com", password |-> "Secret123!"],
     [email |-> "a@x.com", password |-> "pw72bytes+A"],
     [email |-> "a@x.com", password |-> "pw72bytes+B"],
     [email |-> "A@x.com", password |-> "Secret123!"],
     [email |-> "bad", password |-> "Secret123!"],
     [email |-> "a@x.com", password |-> "short"]}

\* signupSchema: z.string().email(), z.string().min(8)
signupSchema(body) == body.email \in ValidEmails /\ body.password \in ValidPasswords

loginSchema(body) == signupSchema(body)

\* refreshSchema: z.string().min(1)
refreshSchema(tok) == tok.key # "absent"

(* ------------------------------ bcryptjs ------------------------------- *)

\* The key material bcrypt consumes: the first 72 bytes of the password.
BcryptKey(password) ==
    IF password \in {"pw72bytes+A", "pw72bytes+B"} THEN "pw72bytes" ELSE password

\* bcrypt.hash(password, 12)
BcryptHash(password) == BcryptKey(password)

\* bcrypt.compare(password, passwordHash)
BcryptCompare(password, passwordHash) == BcryptKey(password) = passwordHash

(* ------------------------------- jwt.ts -------------------------------- *)

JwtSign(payload, key, ttl, clock) ==
    [key |-> key, userId |-> payload.userId, email |-> payload.email,
     iat |-> clock, exp |-> clock + ttl]

\* jwt.verify: signature first, then expiry (clockTimestamp >= exp throws).
JwtVerifies(tok, key, clock) == tok.key = key /\ clock < tok.exp

generateAccessToken(payload, clock) ==
    JwtSign(payload, JWT_SECRET, JWT_EXPIRES_IN, clock)

generateRefreshToken(payload, clock) ==
    JwtSign(payload, JWT_REFRESH_SECRET, JWT_REFRESH_EXPIRES_IN, clock)

verifyAccessToken(tok, clock) == JwtVerifies(tok, JWT_SECRET, clock)

verifyRefreshToken(tok, clock) == JwtVerifies(tok, JWT_REFRESH_SECRET, clock)

TokenPayload(tok) == [userId |-> tok.userId, email |-> tok.email]

(* ------------------------------ database ------------------------------- *)

\* A lookup that never finds the user.
FindUserByEmail_Miss(email) == NoUser

\* prisma.user.findUnique({ where: { email } }): an exact match.
FindUserByEmail(email) ==
    IF \E u \in users : u.email = email
    THEN CHOOSE u \in users : u.email = email
    ELSE NoUser

\* CREATE UNIQUE INDEX "users_email_key"
users_email_key(email) == \A u \in users : u.email # email

\* The table without its unique index on the token column.
refresh_tokens_token_key_Dropped(tok) == TRUE

\* CREATE UNIQUE INDEX "refresh_tokens_token_key"
refresh_tokens_token_key(tok) == \A r \in refreshTokens : r.token # tok

\* The table without its foreign key to users.
refresh_tokens_userId_fkey_Dropped(userId) == TRUE

\* FOREIGN KEY ("userId") REFERENCES "users"("id")
refresh_tokens_userId_fkey(userId) == \E u \in users : u.id = userId

\* prisma.refreshToken.findUnique({ where: { token } })
FindRefreshToken(tok) ==
    IF \E r \in refreshTokens : r.token = tok
    THEN CHOOSE r \in refreshTokens : r.token = tok
    ELSE NoRow

\* The row with the owner taken from the wrong argument.
NewRefreshRow_WrongOwner(id, tok, userId, expiresAt) ==
    [id |-> id, token |-> tok, userId |-> id, expiresAt |-> expiresAt]

\* The row prisma.refreshToken.create inserts.
NewRefreshRow(id, tok, userId, expiresAt) ==
    [id |-> id, token |-> tok, userId |-> userId, expiresAt |-> expiresAt]

\* Whether prisma.refreshToken.create succeeds (it throws otherwise).
CanCreateRefreshToken(tok, userId) ==
    refresh_tokens_token_key(tok) /\ refresh_tokens_userId_fkey(userId)

\* A deleteMany that selects by the owner of the token instead of the token.
DeleteManyByToken_ByOwner(rows, tok) == {r \in rows : r.userId = tok.userId}

\* prisma.refreshToken.deleteMany({ where: { token } }): the rows it removes.
DeleteManyByToken(rows, tok) == {r \in rows : r.token = tok}

\* A foreign key without ON DELETE CASCADE that lets the user go alone.
CascadeRows_None(rows, userId) == {}

\* ON DELETE CASCADE: the rows that go with a user.
CascadeRows(rows, userId) == {r \in rows : r.userId = userId}

(* ------------------------------ requests ------------------------------- *)

IdleReq ==
    [kind |-> "idle", pc |-> "idle",
     email |-> "", password |-> "", token |-> Absent, scheme |-> "", route |-> "",
     user |-> NoUser, stored |-> NoRow, payload |-> NoPayload,
     newAccess |-> Absent, newRefresh |-> Absent, expiresAt |-> 0,
     status |-> 0, message |-> "", accessToken |-> Absent, refreshToken |-> Absent,
     userId |-> 0,
     created |-> {}, removed |-> {}, createdUser |-> 0,
     handlerCalls |-> 0, reqUserId |-> 0, reqUserEmail |-> "",
     before |-> {}, wasActive |-> FALSE]

Done(p) == req[p].pc = "done"

\* Requests arrive in the order of their numbers.
CanStart(p) ==
    /\ req[p].pc = "idle"
    /\ \A q \in Procs : q < p => req[q].pc # "idle"

\* The requests that had been answered when a new one arrives.
Answered == {q \in Procs : Done(q)}

\* res.status(s).json({ error: msg })
Fail(r, s, msg) == [r EXCEPT !.pc = "done", !.status = s, !.message = msg]

\* A rejected promise nobody catches: the request gets no 2xx/4xx answer.
Crash(r) == [r EXCEPT !.pc = "done", !.status = 500,
                      !.message = "unhandled rejection"]

\* What a client can hold: every token some answer carried.
ReturnedRefresh == {req[q].refreshToken : q \in Answered} \ {Absent}
ReturnedAccess == {req[q].accessToken : q \in Answered} \ {Absent}

\* Empty tables, no request yet.
AuthInit ==
    /\ now = 0
    /\ users = {}
    /\ refreshTokens = {}
    /\ nextId = 1
    /\ req = [p \in Procs |-> IdleReq]

\* The wall clock passes a second boundary.
Tick ==
    /\ now < MaxTime
    /\ now' = now + 1
    /\ UNCHANGED <<users, refreshTokens, nextId, req>>
    /\ UNCHANGED restOfAuth

(* ------------------------- POST /api/auth/signup ----------------------- *)

\* Lines 43-57: parse the body, look the email up, answer 409 or hash.
Signup(p) ==
    /\ CanStart(p)
    /\ \E body \in Bodies :
        LET r0 == [req[p] EXCEPT !.kind = "signup", !.email = body.email,
                                 !.password = body.password, !.before = Answered]
            existing == FindUserByEmail(body.email)
        IN  req' = [req EXCEPT ![p] =
                IF ~signupSchema(body) THEN Fail(r0, 400, "Validation failed")
                ELSE IF existing # NoUser
                THEN Fail([r0 EXCEPT !.user = existing], 409, "Email already registered")
                ELSE [r0 EXCEPT !.pc = "signup_create"]]
    /\ UNCHANGED <<now, users, refreshTokens, nextId>>
    /\ UNCHANGED restOfAuth

\* Lines 60-62: prisma.user.create executes.
SignupCreateUser(p) ==
    /\ req[p].pc = "signup_create"
    /\ IF users_email_key(req[p].email)
       THEN LET u == [id |-> nextId, email |-> req[p].email,
                      passwordHash |-> BcryptHash(req[p].password)]
            IN  /\ users' = users \cup {u}
                /\ nextId' = nextId + 1
                /\ req' = [req EXCEPT ![p] = [@ EXCEPT !.pc = "signup_issue", !.user = u,
                                                       !.createdUser = u.id]]
       ELSE /\ req' = [req EXCEPT ![p] = Crash(@)]
            /\ UNCHANGED <<users, nextId>>
    /\ UNCHANGED <<now, refreshTokens>>
    /\ UNCHANGED restOfAuth

\* Lines 65-70: sign the pair at the current second.
SignupIssue(p) ==
    /\ req[p].pc = "signup_issue"
    /\ LET payload == [userId |-> req[p].user.id, email |-> req[p].user.email]
       IN  req' = [req EXCEPT ![p] =
                [@ EXCEPT !.pc = "signup_store", !.payload = payload,
                          !.newAccess = generateAccessToken(payload, now),
                          !.newRefresh = generateRefreshToken(payload, now),
                          !.expiresAt = now + StoredRefreshLifetime]]
    /\ UNCHANGED <<now, users, refreshTokens, nextId>>
    /\ UNCHANGED restOfAuth

\* The state change of a prisma.refreshToken.create that may throw, and the
\* answer `ok` the handler gives when it does not.
StoreToken(p, ok, onThrow) ==
    LET r == req[p]
        row == NewRefreshRow(nextId, r.newRefresh, r.payload.userId, r.expiresAt)
    IN  IF CanCreateRefreshToken(r.newRefresh, r.payload.userId)
        THEN /\ refreshTokens' = refreshTokens \cup {row}
             /\ nextId' = nextId + 1
             /\ req' = [req EXCEPT ![p] =
                    [@ EXCEPT !.pc = "done", !.status = ok,
                              !.accessToken = r.newAccess,
                              !.refreshToken = r.newRefresh,
                              !.userId = r.payload.userId,
                              !.created = @ \cup {row}]]
        ELSE /\ req' = [req EXCEPT ![p] = onThrow]
             /\ UNCHANGED <<refreshTokens, nextId>>

\* Lines 71-75: prisma.refreshToken.create executes, then 201.
SignupStore(p) ==
    /\ req[p].pc = "signup_store"
    /\ StoreToken(p, 201, Crash(req[p]))
    /\ UNCHANGED <<now, users>>
    /\ UNCHANGED restOfAuth

(* ------------------------- POST /api/auth/login ------------------------ *)

\* An answer that tells the caller the email is not registered.
LoginNoUserAnswer_Telling(r) == Fail(r, 404, "User not found")

\* The two 401 answers of the login route.
LoginNoUserAnswer(r) == Fail(r, 401, "Invalid email or password")

LoginBadPasswordAnswer(r) == Fail(r, 401, "Invalid email or password")

\* Lines 80-96: parse, look the user up, compare the password.
Login(p) ==
    /\ CanStart(p)
    /\ \E body \in Bodies :
        LET r0 == [req[p] EXCEPT !.kind = "login", !.email = body.email,
                                 !.password = body.password, !.before = Answered]
            user == FindUserByEmail(body.email)
        IN  req' = [req EXCEPT ![p] =
                IF ~loginSchema(body) THEN Fail(r0, 400, "Validation failed")
                ELSE IF user = NoUser THEN LoginNoUserAnswer(r0)
                ELSE IF ~BcryptCompare(body.password, user.passwordHash)
                THEN LoginBadPasswordAnswer([r0 EXCEPT !.user = user])
                ELSE [r0 EXCEPT !.pc = "login_issue", !.user = user]]
    /\ UNCHANGED <<now, users, refreshTokens, nextId>>
    /\ UNCHANGED restOfAuth

\* Lines 98-102: sign the pair at the current second.
LoginIssue(p) ==
    /\ req[p].pc = "login_issue"
    /\ LET payload == [userId |-> req[p].user.id, email |-> req[p].user.email]
       IN  req' = [req EXCEPT ![p] =
                [@ EXCEPT !.pc = "login_store", !.payload = payload,
                          !.newAccess = generateAccessToken(payload, now),
                          !.newRefresh = generateRefreshToken(payload, now),
                          !.expiresAt = now + StoredRefreshLifetime]]
    /\ UNCHANGED <<now, users, refreshTokens, nextId>>
    /\ UNCHANGED restOfAuth

\* Lines 103-107: prisma.refreshToken.create executes, then 200.
LoginStore(p) ==
    /\ req[p].pc = "login_store"
    /\ StoreToken(p, 200, Crash(req[p]))
    /\ UNCHANGED <<now, users>>
    /\ UNCHANGED restOfAuth

(* ------------------------ POST /api/auth/refresh ----------------------- *)

\* The Active state of a refresh token: its signature verifies, its row
\* exists and the stored expiry has not passed.
Active(tok) ==
    /\ verifyRefreshToken(tok, now)
    /\ \E r \in refreshTokens : r.token = tok /\ ~(r.expiresAt < now)

\* Lines 145-147: the catch of the route, which answers whatever was thrown
\* inside the try (by jwt.verify or by a query).
RefreshCatch(r) == Fail(r, 401, "Invalid refresh token")

\* Lines 112-120: parse the body, verify signature and embedded expiry.
Refresh(p) ==
    /\ CanStart(p)
    /\ \E tok \in ReturnedRefresh \cup ReturnedAccess \cup {Forged, Absent} :
        LET r0 == [req[p] EXCEPT !.kind = "refresh", !.token = tok, !.before = Answered,
                                 !.wasActive = Active(tok)]
        IN  req' = [req EXCEPT ![p] =
                IF ~refreshSchema(tok) THEN Fail(r0, 400, "Refresh token is required")
                ELSE IF ~verifyRefreshToken(tok, now) THEN RefreshCatch(r0)
                ELSE [r0 EXCEPT !.pc = "refresh_find", !.payload = TokenPayload(tok)]]
    /\ UNCHANGED <<now, users, refreshTokens, nextId>>
    /\ UNCHANGED restOfAuth

\* Lines 123-125: prisma.refreshToken.findUnique executes.
RefreshFind(p) ==
    /\ req[p].pc = "refresh_find"
    /\ req' = [req EXCEPT ![p] =
            [@ EXCEPT !.pc = "refresh_check", !.stored = FindRefreshToken(req[p].token)]]
    /\ UNCHANGED <<now, users, refreshTokens, nextId>>
    /\ UNCHANGED restOfAuth

\* Lines 127-130: the row must exist and its stored expiry not have passed.
RefreshCheck(p) ==
    /\ req[p].pc = "refresh_check"
    /\ req' = [req EXCEPT ![p] =
            IF req[p].stored = NoRow \/ req[p].stored.expiresAt < now
            THEN Fail(@, 401, "Invalid or expired refresh token")
            ELSE [@ EXCEPT !.pc = "refresh_delete"]]
    /\ UNCHANGED <<now, users, refreshTokens, nextId>>
    /\ UNCHANGED restOfAuth

\* Line 133: prisma.refreshToken.delete({ where: { id } }) executes; it throws
\* when the row is gone, and the catch of line 145 answers.
RefreshDelete(p) ==
    /\ req[p].pc = "refresh_delete"
    /\ IF req[p].stored \in refreshTokens
       THEN /\ refreshTokens' = refreshTokens \ {req[p].stored}
            /\ req' = [req EXCEPT ![p] =
                    [@ EXCEPT !.pc = "refresh_issue", !.removed = @ \cup {req[p].stored}]]
       ELSE /\ req' = [req EXCEPT ![p] = RefreshCatch(@)]
            /\ UNCHANGED refreshTokens
    /\ UNCHANGED <<now, users, nextId>>
    /\ UNCHANGED restOfAuth

\* Lines 135-139: sign the new pair at the current second.
RefreshIssue(p) ==
    /\ req[p].pc = "refresh_issue"
    /\ LET newPayload == [userId |-> req[p].payload.userId, email |-> req[p].payload.email]
       IN  req' = [req EXCEPT ![p] =
                [@ EXCEPT !.pc = "refresh_store", !.payload = newPayload,
                          !.newAccess = generateAccessToken(newPayload, now),
                          !.newRefresh = generateRefreshToken(newPayload, now),
                          !.expiresAt = now + StoredRefreshLifetime]]
    /\ UNCHANGED <<now, users, refreshTokens, nextId>>
    /\ UNCHANGED restOfAuth

\* Lines 140-147: prisma.refreshToken.create executes, then 200; a throw is
\* caught and answered 401.
RefreshStore(p) ==
    /\ req[p].pc = "refresh_store"
    /\ StoreToken(p, 200, RefreshCatch(req[p]))
    /\ UNCHANGED <<now, users>>
    /\ UNCHANGED restOfAuth

(* ------------------------ POST /api/auth/logout ------------------------ *)

\* The rows the logout route removes for the refreshToken field of the body.
LogoutRemoves(rows, tok) ==
    IF tok.key # "absent" THEN DeleteManyByToken(rows, tok) ELSE {}

\* Lines 152-153: read the body; without a token the answer is immediate.
Logout(p) ==
    /\ CanStart(p)
    /\ \E tok \in ReturnedRefresh \cup {Forged, Absent} :
        LET r0 == [req[p] EXCEPT !.kind = "logout", !.token = tok, !.before = Answered]
        IN  req' = [req EXCEPT ![p] =
                IF tok.key = "absent"
                THEN [r0 EXCEPT !.pc = "done", !.status = 200, !.message = "Logged out"]
                ELSE [r0 EXCEPT !.pc = "logout_delete"]]
    /\ UNCHANGED <<now, users, refreshTokens, nextId>>
    /\ UNCHANGED restOfAuth

\* Lines 154-156: prisma.refreshToken.deleteMany executes, then 200.
LogoutDelete(p) ==
    /\ req[p].pc = "logout_delete"
    /\ LET gone == LogoutRemoves(refreshTokens, req[p].token)
       IN  /\ refreshTokens' = refreshTokens \ gone
           /\ req' = [req EXCEPT ![p] =
                   [@ EXCEPT !.pc = "done", !.status = 200, !.message = "Logged out",
                             !.removed = gone]]
    /\ UNCHANGED <<now, users, nextId>>
    /\ UNCHANGED restOfAuth

(* ----------------------------- authMiddleware -------------------------- *)

\* A middleware that decodes the bearer token without verifying it.
authMiddleware_Unverified(r, clock) ==
    IF r.scheme # "Bearer " THEN Fail(r, 401, "No token provided")
    ELSE [r EXCEPT !.reqUserId = r.token.userId, !.reqUserEmail = r.token.email,
                   !.handlerCalls = @ + 1, !.pc = "handler"]

\* The request after the middleware ran: answered 401, or handed to the
\* handler with the identity attached.
authMiddleware(r, clock) ==
    IF r.scheme # "Bearer " THEN Fail(r, 401, "No token provided")
    ELSE IF ~verifyAccessToken(r.token, clock)
    THEN Fail(r, 401, "Invalid or expired token")
    ELSE [r EXCEPT !.reqUserId = r.token.userId, !.reqUserEmail = r.token.email,
                   !.handlerCalls = @ + 1, !.pc = "handler"]

\* The Authorization headers a client sends: none, another scheme, a bearer.
Headers ==
    {[scheme |-> "", token |-> Absent], [scheme |-> "Basic ", token |-> Forged]}
        \cup [scheme : {"Bearer "},
              token : ReturnedAccess \cup ReturnedRefresh \cup {Forged}]

\* A request to a router that starts with router.use(authMiddleware).  The
\* handler starts in the same turn: DELETE /api/account sends its query, any
\* other protected route is answered here.
Protected(p) ==
    /\ CanStart(p)
    /\ \E h \in Headers, route \in {"account", "items"} :
        LET r0 == [req[p] EXCEPT !.kind = "protected", !.scheme = h.scheme,
                                 !.token = h.token, !.route = route,
                                 !.before = Answered]
            r1 == authMiddleware(r0, now)
        IN  req' = [req EXCEPT ![p] =
                IF r1.pc # "handler" THEN r1
                ELSE IF route = "account" THEN [r1 EXCEPT !.pc = "account_delete"]
                ELSE [r1 EXCEPT !.pc = "done", !.status = 200]]
    /\ UNCHANGED <<now, users, refreshTokens, nextId>>
    /\ UNCHANGED restOfAuth

(* --------------------------- DELETE /api/account ----------------------- *)

\* Lines 22-27: prisma.user.delete executes (it throws when the user is
\* gone) and the refresh tokens of the user go with it.
AccountDelete(p) ==
    /\ req[p].pc = "account_delete"
    /\ IF \E u \in users : u.id = req[p].reqUserId
       THEN LET gone == CascadeRows(refreshTokens, req[p].reqUserId)
            IN  /\ users' = {u \in users : u.id # req[p].reqUserId}
                /\ refreshTokens' = refreshTokens \ gone
                /\ req' = [req EXCEPT ![p] =
                        [@ EXCEPT !.pc = "done", !.status = 200, !.removed = gone,
                                  !.message = "Account and all associated data deleted"]]
       ELSE /\ req' = [req EXCEPT ![p] = Crash(@)]
            /\ UNCHANGED <<users, refreshTokens>>
    /\ UNCHANGED <<now, nextId>>
    /\ UNCHANGED restOfAuth

(* ====================== the client (Angular) ========================== *)
(* AuthService keeps the credentials in localStorage and in two signals;   *)
(* JwtInterceptor wraps every HttpClient call.  A step of the client is    *)
(* one turn of the event loop: the code that runs from the arrival of a    *)
(* response to the next point where it waits for the network.  The server  *)
(* is seen through its answers: which access tokens the gatekeeper still   *)
(* accepts and which refresh tokens are Active in the registry.            *)

Calls == 1..NumCalls

\* null
NoToken == 0

\* `${environment.apiUrl}/auth/...`
SignupUrl == "/api/auth/signup"
LoginUrl == "/api/auth/login"
RefreshUrl == "/api/auth/refresh"
LogoutUrl == "/api/auth/logout"
\* What the components ask for.
ItemsUrl == "/api/items"

\* The calls the application code makes through HttpClient.
CallUrls == {ItemsUrl, LoginUrl, SignupUrl}

\* An interceptor that treats no url as an auth endpoint.
IsAuthUrl_Never(url) == FALSE

\* req.url.includes('/auth/')
IsAuthUrl(url) == url \in {SignupUrl, LoginUrl, RefreshUrl, LogoutUrl}

\* Lines 101-109: the Authorization header the request leaves with (NoToken:
\* no header).
AuthorizationFor(url, token) == IF IsAuthUrl(url) THEN NoToken ELSE token

\* Lines 101-103 and 113: whether the error of a call starts a refresh.
CatchesUnauthorized(url, status) == ~IsAuthUrl(url) /\ status = 401

\* localStorage and the signals of AuthService: nobody is logged in.
LoggedOutClient ==
    [accessTokenSignal |-> NoToken, userSignal |-> 0,
     accessToken |-> NoToken, refreshToken |-> NoToken, user |-> 0]

NoResponse == [status |-> 0, accessToken |-> NoToken, refreshToken |-> NoToken, user |-> 0]

ErrorResponse(status) == [NoResponse EXCEPT !.status = status]

IdleCall ==
    [url |-> "", pc |-> "idle", authorization |-> NoToken, sends |-> 0,
     refreshes |-> 0, body |-> NoToken, refreshAuthorization |-> NoToken,
     response |-> NoResponse, firstStatus |-> 0, refreshStatus |-> 0,
     newToken |-> NoToken, retryAuthorization |-> NoToken, retryStatus |-> 0,
     result |-> 0, heldActive |-> FALSE, peers |-> {}, loggedOut |-> FALSE]

EmptyBackend == [registry |-> {}, liveAccess |-> {}, issued |-> 0]

\* get accessToken()
accessToken == client.accessTokenSignal

\* get refreshToken()
refreshToken == client.refreshToken

\* storeTokens(res)
storeTokens(res) ==
    [accessTokenSignal |-> res.accessToken, userSignal |-> res.user,
     accessToken |-> res.accessToken, refreshToken |-> res.refreshToken,
     user |-> res.user]

\* Lines 149-151 of refresh(): the pair is stored, the user is left alone.
StoreRefreshed(cl, res) ==
    [cl EXCEPT !.accessToken = res.accessToken, !.refreshToken = res.refreshToken,
               !.accessTokenSignal = res.accessToken]

\* A logout that leaves the refresh token in localStorage.
AfterLogout_KeepsRefreshToken(cl) == [LoggedOutClient EXCEPT !.refreshToken = cl.refreshToken]

\* logout(), lines 169-173: what it leaves in localStorage and the signals.
AfterLogout(cl) == LoggedOutClient

\* logout(), lines 162-167: the fire-and-forget POST /auth/logout it sends.
LogoutPost(cl) ==
    IF cl.refreshToken # NoToken
    THEN {[refreshToken |-> cl.refreshToken,
           authorization |-> AuthorizationFor(LogoutUrl, cl.accessTokenSignal)]}
    ELSE {}

\* logout() called `times` times in one turn.
logout(times) ==
    /\ client' = AfterLogout(client)
    /\ logoutPosts' = logoutPosts \cup LogoutPost(client)
            \cup (IF times > 1 THEN LogoutPost(AfterLogout(client)) ELSE {})

\* The calls whose refresh is waiting for its answer.
Refreshing == {c \in Calls : calls[c].pc \in {"refresh_sent", "refresh_answered"}}

\* Calls are made in the order of their numbers.
CanStartCall(c) ==
    /\ calls[c].pc = "idle"
    /\ \A d \in Calls : d < c => calls[d].pc # "idle"

\* The application makes a call; intercept() runs to next.handle(authReq).
CallStart(c) ==
    /\ CanStartCall(c)
    /\ \E url \in CallUrls :
        calls' = [calls EXCEPT ![c] =
            [@ EXCEPT !.url = url, !.pc = "sent", !.sends = 1,
                      !.authorization = AuthorizationFor(url, accessToken)]]
    /\ UNCHANGED <<client, backend, logoutPosts>>
    /\ UNCHANGED restOfClient

\* authMiddleware as the client meets it: 401 unless the bearer is an access
\* token that still verifies.
GatekeeperStatus(authorization) ==
    IF authorization \in backend.liveAccess THEN 200 ELSE 401

\* The server answers a call to a protected route (the first transmission or
\* the retry): 401 from the gatekeeper, or the handler's answer.
ServerApi(c) ==
    /\ calls[c].pc \in {"sent", "retry_sent"}
    /\ calls[c].url = ItemsUrl
    /\ LET first == calls[c].pc = "sent"
           bearer == IF first THEN calls[c].authorization
                     ELSE calls[c].retryAuthorization
       IN  \E status \in (IF GatekeeperStatus(bearer) = 200 THEN {200, 404} ELSE {401}) :
            calls' = [calls EXCEPT ![c] =
                [@ EXCEPT !.pc = IF first THEN "answered" ELSE "retry_answered",
                          !.response = ErrorResponse(status)]]
    /\ UNCHANGED <<client, backend, logoutPosts>>
    /\ UNCHANGED restOfClient

\* The pair the server issues next, and the registry after it.
Issue(b) ==
    [registry |-> b.registry \cup {b.issued + 1},
     liveAccess |-> b.liveAccess \cup {b.issued + 1},
     issued |-> b.issued + 1]

PairResponse(n, user) ==
    [status |-> 200, accessToken |-> n, refreshToken |-> n, user |-> user]

\* POST /auth/login and POST /auth/signup: 200 (201) with a new pair, or 401
\* for wrong credentials (409 for a registered email).
ServerLogin(c) ==
    /\ calls[c].pc = "sent"
    /\ calls[c].url \in {LoginUrl, SignupUrl}
    /\ \E ok \in BOOLEAN :
        IF ok
        THEN /\ backend' = Issue(backend)
             /\ calls' = [calls EXCEPT ![c] =
                    [@ EXCEPT !.pc = "answered",
                              !.response =
                                  [PairResponse(backend.issued + 1, 1) EXCEPT
                                      !.status = IF calls[c].url = LoginUrl
                                                 THEN 200 ELSE 201]]]
        ELSE /\ calls' = [calls EXCEPT ![c] =
                    [@ EXCEPT !.pc = "answered",
                              !.response = ErrorResponse(
                                  IF calls[c].url = LoginUrl THEN 401 ELSE 409)]]
             /\ UNCHANGED backend
    /\ UNCHANGED <<client, logoutPosts>>
    /\ UNCHANGED restOfClient

\* POST /auth/refresh: an Active token is retired and replaced, any other is
\* answered 401.
ServerExchange(c) ==
    /\ calls[c].pc = "refresh_sent"
    /\ IF calls[c].body \in backend.registry
       THEN /\ backend' = Issue([backend EXCEPT !.registry = @ \ {calls[c].body}])
            /\ calls' = [calls EXCEPT ![c] =
                    [@ EXCEPT !.pc = "refresh_answered",
                              !.response = PairResponse(backend.issued + 1, 0)]]
       ELSE /\ calls' = [calls EXCEPT ![c] =
                    [@ EXCEPT !.pc = "refresh_answered", !.response = ErrorResponse(401)]]
            /\ UNCHANGED backend
    /\ UNCHANGED <<client, logoutPosts>>
    /\ UNCHANGED restOfClient

\* POST /auth/logout arrives: the row of the token goes.
ServerLogout ==
    /\ \E post \in logoutPosts :
        /\ backend' = [backend EXCEPT !.registry = @ \ {post.refreshToken}]
        /\ logoutPosts' = logoutPosts \ {post}
    /\ UNCHANGED <<client, calls>>
    /\ UNCHANGED restOfClient

\* An access token passes its exp.
AccessExpires ==
    /\ \E t \in backend.liveAccess :
        backend' = [backend EXCEPT !.liveAccess = @ \ {t}]
    /\ UNCHANGED <<client, calls, logoutPosts>>
    /\ UNCHANGED restOfClient

\* A refresh token passes its expiresAt.
RefreshExpires ==
    /\ \E t \in backend.registry :
        backend' = [backend EXCEPT !.registry = @ \ {t}]
    /\ UNCHANGED <<client, calls, logoutPosts>>
    /\ UNCHANGED restOfClient

\* An answer the interceptor lets through (lines 102 and 128); login() and
\* signup() store the pair of a success.
ReceiveAnswer(c) ==
    /\ calls[c].pc = "answered"
    /\ ~CatchesUnauthorized(calls[c].url, calls[c].response.status)
    /\ client' = IF calls[c].url \in {LoginUrl, SignupUrl}
                        /\ calls[c].response.status \in {200, 201}
                 THEN storeTokens(calls[c].response)
                 ELSE client
    /\ calls' = [calls EXCEPT ![c] =
            [@ EXCEPT !.pc = "done", !.firstStatus = calls[c].response.status,
                      !.result = calls[c].response.status]]
    /\ UNCHANGED <<backend, logoutPosts>>
    /\ UNCHANGED restOfClient

\* The call when refresh() has sent POST /auth/refresh (lines 138-147).
RefreshSent(call) ==
    [call EXCEPT !.pc = "refresh_sent", !.refreshes = @ + 1,
                 !.firstStatus = call.response.status,
                 !.body = refreshToken,
                 !.refreshAuthorization = AuthorizationFor(RefreshUrl, accessToken),
                 !.heldActive = refreshToken \in backend.registry]

\* Lines 112-115: a 401 reaches catchError and refresh() starts.  Without a
\* refresh token it returns null at once: lines 123-124.
ReceiveUnauthorized(c) ==
    /\ calls[c].pc = "answered"
    /\ CatchesUnauthorized(calls[c].url, calls[c].response.status)
    /\ IF refreshToken = NoToken
       THEN /\ logout(1)
            /\ calls' = [calls EXCEPT ![c] =
                    [@ EXCEPT !.pc = "done", !.firstStatus = calls[c].response.status,
                              !.result = calls[c].response.status, !.peers = Refreshing]]
       ELSE /\ calls' = [calls EXCEPT ![c] = [RefreshSent(@) EXCEPT !.peers = Refreshing]]
            /\ UNCHANGED <<client, logoutPosts>>
    /\ UNCHANGED backend
    /\ UNCHANGED restOfClient

\* A retry that is not transmitted: the caller is handed the first error.
Retry_NotSent(call, token) ==
    [call EXCEPT !.pc = "done", !.refreshStatus = 200, !.newToken = token,
                 !.result = call.firstStatus]

\* Lines 117-121: the original request goes out again with the new token.
Retry(call, token) ==
    [call EXCEPT !.pc = "retry_sent", !.refreshStatus = 200, !.newToken = token,
                 !.retryAuthorization = token, !.sends = @ + 1]

\* The answer of POST /auth/refresh arrives.  200: lines 148-153 store the
\* pair and the interceptor retries.  An error: the catch of refresh() logs
\* out (line 156), the interceptor logs out again and rethrows the first
\* error (lines 123-124).
ReceiveRefresh(c) ==
    /\ calls[c].pc = "refresh_answered"
    /\ IF calls[c].response.status = 200
       THEN /\ client' = StoreRefreshed(client, calls[c].response)
            /\ calls' = [calls EXCEPT ![c] = Retry(@, @.response.accessToken)]
            /\ UNCHANGED logoutPosts
       ELSE /\ logout(2)
            /\ calls' = [calls EXCEPT ![c] =
                    [@ EXCEPT !.pc = "done", !.refreshStatus = calls[c].response.status,
                              !.result = calls[c].firstStatus]]
    /\ UNCHANGED backend
    /\ UNCHANGED restOfClient

\* A retry whose 401 starts another refresh.
RetryAnswered_Caught(call) ==
    IF call.response.status = 401
    THEN [call EXCEPT !.pc = "refresh_sent", !.refreshes = @ + 1]
    ELSE [call EXCEPT !.pc = "done", !.retryStatus = call.response.status,
                      !.result = call.response.status]

\* Line 121: whatever next.handle(retryReq) yields goes to the caller.
RetryAnswered(call) ==
    [call EXCEPT !.pc = "done", !.retryStatus = call.response.status,
                 !.result = call.response.status]

ReceiveRetry(c) ==
    /\ calls[c].pc = "retry_answered"
    /\ calls' = [calls EXCEPT ![c] = RetryAnswered(@)]
    /\ UNCHANGED <<client, backend, logoutPosts>>
    /\ UNCHANGED restOfClient

\* The user logs out.
UserLogout ==
    /\ logout(1)
    /\ calls' = [c \in Calls |->
            IF c \in Refreshing THEN [calls[c] EXCEPT !.loggedOut = TRUE]
            ELSE calls[c]]
    /\ UNCHANGED backend
    /\ UNCHANGED restOfClient

\* A session restored from localStorage: the pair the server issued last.
RestoredClient ==
    [accessTokenSignal |-> 1, userSignal |-> 1,
     accessToken |-> 1, refreshToken |-> 1, user |-> 1]

\* No client is running.
ClientOff ==
    /\ client = LoggedOutClient
    /\ calls = [c \in Calls |-> IdleCall]
    /\ backend = EmptyBackend
    /\ logoutPosts = {}

\* The page loads: AuthService reads localStorage.
ClientInit ==
    /\ calls = [c \in Calls |-> IdleCall]
    /\ logoutPosts = {}
    /\ \E restored \in BOOLEAN :
        /\ client = IF restored THEN RestoredClient ELSE LoggedOutClient
        /\ backend = IF restored THEN Issue(EmptyBackend) ELSE EmptyBackend

ClientNext ==
    \/ \E c \in Calls : CallStart(c)
    \/ \E c \in Calls : ServerApi(c)
    \/ \E c \in Calls : ServerLogin(c)
    \/ \E c \in Calls : ServerExchange(c)
    \/ ServerLogout
    \/ AccessExpires
    \/ RefreshExpires
    \/ \E c \in Calls : ReceiveAnswer(c)
    \/ \E c \in Calls : ReceiveUnauthorized(c)
    \/ \E c \in Calls : ReceiveRefresh(c)
    \/ \E c \in Calls : ReceiveRetry(c)
    \/ UserLogout


(* ========================== /api/items ================================= *)
(* The items table with the status column, and item_status_history in the  *)
(* order its rows were inserted.  Of the other columns of an item only     *)
(* projectId is kept (0: NULL).  req.userId is what the gatekeeper         *)
(* attached.                                                               *)

ItemProcs == 1..NumItemReqs

\* The accounts that own items.
Owners == {1, 2}

\* z.enum(['WANT', 'BOUGHT', 'ASSEMBLED', 'WIP', 'FINISHED'])
Statuses == {"WANT", "BOUGHT", "ASSEMBLED", "WIP", "FINISHED"}

\* The status field of the bodies the clients send: absent (""), members of
\* the enum, and a string outside it.
StatusInputs == {"", "WANT", "BOUGHT", "ASSEMBLED", "PAINTED"}

\* The :id of the urls the clients ask for: the item the first request made.
ItemIdInputs == {1}

\* The projectId field of a body: absent, null, or the id of the project the
\* first request to /api/projects made.
Undefined == -1
NoProject == 0
ProjectIdInputs == {Undefined, NoProject, 1}

NoItem == [id |-> 0, userId |-> 0, status |-> "", projectId |-> NoProject]

IdleItemReq ==
    [kind |-> "idle", pc |-> "idle", userId |-> 0, id |-> 0, status |-> "",
     projectId |-> Undefined, existing |-> NoItem, answer |-> 0]

\* FOREIGN KEY ("projectId") REFERENCES "projects"("id")
items_projectId_fkey(projectId) ==
    projectId \in {Undefined, NoProject} \/ \E pr \in projects : pr.id = projectId

\* prisma.item.findFirst({ where: { id, userId } })
FindItem(id, userId) ==
    IF \E i \in items : i.id = id /\ i.userId = userId
    THEN CHOOSE i \in items : i.id = id /\ i.userId = userId
    ELSE NoItem

\* prisma.item.update({ where: { id }, data: { status } }): the table after it.
UpdateItemStatus(id, status) ==
    {IF i.id = id THEN [i EXCEPT !.status = status] ELSE i : i \in items}

\* Whether prisma.item.update / delete finds its row (it throws otherwise).
ItemExists(id) == \E i \in items : i.id = id

\* The rows of item_status_history of one item, oldest first.
HistoryOf(id) == SelectSeq(statusHistory, LAMBDA h : h.itemId = id)

\* Requests arrive in the order of their numbers.
CanStartItemReq(p) ==
    /\ itemReqs[p].pc = "idle"
    /\ \A q \in ItemProcs : q < p => itemReqs[q].pc # "idle"

\* res.status(s): the request is answered.
ItemAnswer(r, s) == [r EXCEPT !.pc = "done", !.answer = s]

\* POST /api/items, lines 114-132: 400 for a body that does not parse, else
\* the row is created with the status of the body (default 'WANT') and its
\* projectId; prisma.item.create throws when the foreign key refuses it.
ItemsPost(p) ==
    /\ CanStartItemReq(p)
    /\ \E u \in Owners, s \in StatusInputs, pid \in ProjectIdInputs \ {Undefined} :
        LET r == [itemReqs[p] EXCEPT !.kind = "post", !.userId = u, !.status = s,
                                     !.id = p, !.projectId = pid]
        IN  IF s \notin Statuses \cup {""}
            THEN /\ itemReqs' = [itemReqs EXCEPT ![p] = ItemAnswer(r, 400)]
                 /\ UNCHANGED items
            ELSE IF ~items_projectId_fkey(pid)
            THEN /\ itemReqs' = [itemReqs EXCEPT ![p] = ItemAnswer(r, 500)]
                 /\ UNCHANGED items
            ELSE /\ items' = items \cup
                        {[id |-> p, userId |-> u,
                          status |-> IF s = "" THEN "WANT" ELSE s,
                          projectId |-> pid]}
                 /\ itemReqs' = [itemReqs EXCEPT ![p] = ItemAnswer(r, 201)]
    /\ UNCHANGED statusHistory
    /\ UNCHANGED restOfItems

\* A request on /api/items/:id arrives: 400 when the body does not parse,
\* then findFirst and 404; else the request goes on with the row found.
ItemLookup(r, kind, u, id, s, accepted) ==
    LET r0 == [r EXCEPT !.kind = kind, !.userId = u, !.id = id, !.status = s]
    IN  IF s \notin accepted THEN ItemAnswer(r0, 400)
        ELSE IF FindItem(id, u) = NoItem THEN ItemAnswer(r0, 404)
        ELSE [r0 EXCEPT !.existing = FindItem(id, u), !.pc = "found"]

\* PUT /api/items/:id, lines 135-149.  updateItemSchema is
\* createItemSchema.partial(): the status field is optional, and accepted.
ItemsPut(p) ==
    /\ CanStartItemReq(p)
    /\ \E u \in Owners, id \in ItemIdInputs, s \in StatusInputs, pid \in ProjectIdInputs :
        LET r == ItemLookup([itemReqs[p] EXCEPT !.projectId = pid],
                            "put", u, id, s, Statuses \cup {""})
        IN  itemReqs' = [itemReqs EXCEPT ![p] =
                IF r.pc # "found" THEN r ELSE [r EXCEPT !.pc = "put_update"]]
    /\ UNCHANGED <<items, statusHistory>>
    /\ UNCHANGED restOfItems

\* prisma.item.update({ where: { id }, data }) of the PUT: the fields the
\* body carries are written, the others stay.
UpdateItem(id, status, projectId) ==
    {IF i.id # id THEN i
     ELSE [i EXCEPT !.status = IF status = "" THEN @ ELSE status,
                    !.projectId = IF projectId = Undefined THEN @ ELSE projectId]
     : i \in items}

\* Lines 151-159: prisma.item.update with the parsed body; it throws when the
\* item is gone or the foreign key refuses the projectId.
ItemsPutUpdate(p) ==
    /\ itemReqs[p].pc = "put_update"
    /\ IF ItemExists(itemReqs[p].id) /\ items_projectId_fkey(itemReqs[p].projectId)
       THEN /\ items' = UpdateItem(itemReqs[p].id, itemReqs[p].status,
                                   itemReqs[p].projectId)
            /\ itemReqs' = [itemReqs EXCEPT ![p] = ItemAnswer(@, 200)]
       ELSE /\ itemReqs' = [itemReqs EXCEPT ![p] = ItemAnswer(@, 500)]
            /\ UNCHANGED items
    /\ UNCHANGED statusHistory
    /\ UNCHANGED restOfItems

\* DELETE /api/items/:id, lines 163-170.
ItemsDelete(p) ==
    /\ CanStartItemReq(p)
    /\ \E u \in Owners, id \in ItemIdInputs :
        LET r == ItemLookup(itemReqs[p], "delete", u, id, "", {""})
        IN  itemReqs' = [itemReqs EXCEPT ![p] =
                IF r.pc # "found" THEN r ELSE [r EXCEPT !.pc = "delete_run"]]
    /\ UNCHANGED <<items, statusHistory>>
    /\ UNCHANGED restOfItems

\* Lines 172-173: prisma.item.delete; the history rows go with the item
\* (ON DELETE CASCADE).
ItemsDeleteRun(p) ==
    /\ itemReqs[p].pc = "delete_run"
    /\ IF ItemExists(itemReqs[p].id)
       THEN /\ items' = {i \in items : i.id # itemReqs[p].id}
            /\ statusHistory' =
                    SelectSeq(statusHistory, LAMBDA h : h.itemId # itemReqs[p].id)
            /\ itemReqs' = [itemReqs EXCEPT ![p] = ItemAnswer(@, 204)]
       ELSE /\ itemReqs' = [itemReqs EXCEPT ![p] = ItemAnswer(@, 500)]
            /\ UNCHANGED <<items, statusHistory>>
    /\ UNCHANGED restOfItems

\* PATCH /api/items/:id/status, lines 178-196: 400 for a body that does not
\* parse, 404, 400 when the row found has the status asked for.
ItemsPatchStatus(p) ==
    /\ CanStartItemReq(p)
    /\ \E u \in Owners, id \in ItemIdInputs, s \in StatusInputs :
        LET r == ItemLookup(itemReqs[p], "patch", u, id, s, Statuses)
        IN  itemReqs' = [itemReqs EXCEPT ![p] =
                IF r.pc # "found" THEN r
                ELSE IF r.existing.status = s THEN ItemAnswer(r, 400)
                ELSE [r EXCEPT !.pc = "patch_transaction"]]
    /\ UNCHANGED <<items, statusHistory>>
    /\ UNCHANGED restOfItems

\* Lines 199-213: the transaction updates the status and inserts the history
\* row (fromStatus is the status the lookup saw); it is rolled back when the
\* item is gone.
ItemsPatchStatusTransaction(p) ==
    /\ itemReqs[p].pc = "patch_transaction"
    /\ IF ItemExists(itemReqs[p].id)
       THEN /\ items' = UpdateItemStatus(itemReqs[p].id, itemReqs[p].status)
            /\ statusHistory' = Append(statusHistory,
                    [itemId |-> itemReqs[p].id,
                     fromStatus |-> itemReqs[p].existing.status,
                     toStatus |-> itemReqs[p].status])
            /\ itemReqs' = [itemReqs EXCEPT ![p] = ItemAnswer(@, 200)]
       ELSE /\ itemReqs' = [itemReqs EXCEPT ![p] = ItemAnswer(@, 500)]
            /\ UNCHANGED <<items, statusHistory>>
    /\ UNCHANGED restOfItems

\* Empty tables, no request yet.
ItemsInit ==
    /\ items = {}
    /\ statusHistory = <<>>
    /\ itemReqs = [p \in ItemProcs |-> IdleItemReq]

ItemsNext ==
    \/ \E p \in ItemProcs : ItemsPost(p)
    \/ \E p \in ItemProcs : ItemsPut(p)
    \/ \E p \in ItemProcs : ItemsPutUpdate(p)
    \/ \E p \in ItemProcs : ItemsDelete(p)
    \/ \E p \in ItemProcs : ItemsDeleteRun(p)
    \/ \E p \in ItemProcs : ItemsPatchStatus(p)
    \/ \E p \in ItemProcs : ItemsPatchStatusTransaction(p)


(* ========================== /api/projects ============================== *)
(* The projects table (id and owner) and the projectId column of items.    *)
(* The id of a project is the number of the request that created it.       *)

ProjectProcs == 1..NumProjectReqs

\* The :id of the urls the clients ask for.
ProjectUrlIds == {1}

\* The itemIds field of the bodies: not a non-empty array, or ids of items.
ItemIdsInputs == {{}, {1}}

NoProjectRow == [id |-> 0, userId |-> 0]

IdleProjectReq ==
    [kind |-> "idle", pc |-> "idle", userId |-> 0, id |-> 0, itemIds |-> {},
     answer |-> 0, included |-> {}, completion |-> 0]

\* STATUS_WEIGHT
STATUS_WEIGHT(status) ==
    CASE status = "WANT" -> 0
      [] status = "BOUGHT" -> 25
      [] status = "ASSEMBLED" -> 50
      [] status = "WIP" -> 75
      [] status = "FINISHED" -> 100

\* The loop of computeCompletion: the weights added up (quantity is 1).
RECURSIVE TotalWeight(_)
TotalWeight(its) ==
    IF its = {} THEN 0
    ELSE LET i == CHOOSE x \in its : TRUE
         IN  STATUS_WEIGHT(i.status) + TotalWeight(its \ {i})

\* computeCompletion(items): Math.round(totalWeight / totalQty), 0 when empty.
computeCompletion(its) ==
    IF its = {} THEN 0
    ELSE (2 * TotalWeight(its) + Cardinality(its)) \div (2 * Cardinality(its))

\* prisma.project.findFirst({ where: { id, userId } })
FindProject(id, userId) ==
    IF \E pr \in projects : pr.id = id /\ pr.userId = userId
    THEN CHOOSE pr \in projects : pr.id = id /\ pr.userId = userId
    ELSE NoProjectRow

\* include: { items }: the rows of items whose projectId is the project's id.
ItemsOfProject(id) == {i \in items : i.projectId = id}

\* prisma.item.updateMany({ where: w, data: { projectId } }): the table after
\* it; w is given by the set of rows it selects.
UpdateManyProjectId(selected, projectId) ==
    {IF i \in selected THEN [i EXCEPT !.projectId = projectId] ELSE i : i \in items}

\* Requests arrive in the order of their numbers.
CanStartProjectReq(p) ==
    /\ projectReqs[p].pc = "idle"
    /\ \A q \in ProjectProcs : q < p => projectReqs[q].pc # "idle"

ProjectAnswer(r, s) == [r EXCEPT !.pc = "done", !.answer = s]

\* POST /api/projects, lines 80-94: 400 without a name, else the row is
\* created for req.userId.
ProjectsPost(p) ==
    /\ CanStartProjectReq(p)
    /\ \E u \in Owners, named \in BOOLEAN :
        LET r == [projectReqs[p] EXCEPT !.kind = "post", !.userId = u, !.id = p]
        IN  IF ~named
            THEN /\ projectReqs' = [projectReqs EXCEPT ![p] = ProjectAnswer(r, 400)]
                 /\ UNCHANGED projects
            ELSE /\ projects' = projects \cup {[id |-> p, userId |-> u]}
                 /\ projectReqs' = [projectReqs EXCEPT ![p] = ProjectAnswer(r, 201)]
    /\ UNCHANGED items
    /\ UNCHANGED restOfProjects

\* GET /api/projects/:id, lines 98-124: the project of the caller with the
\* items the relation includes, and its completion.
ProjectsGet(p) ==
    /\ CanStartProjectReq(p)
    /\ \E u \in Owners, id \in ProjectUrlIds :
        LET r == [projectReqs[p] EXCEPT !.kind = "get", !.userId = u, !.id = id]
        IN  projectReqs' = [projectReqs EXCEPT ![p] =
                IF FindProject(id, u) = NoProjectRow THEN ProjectAnswer(r, 404)
                ELSE [ProjectAnswer(r, 200) EXCEPT
                        !.included = ItemsOfProject(id),
                        !.completion = computeCompletion(ItemsOfProject(id))]]
    /\ UNCHANGED <<items, projects>>
    /\ UNCHANGED restOfProjects

\* DELETE /api/projects/:id, lines 154-161: the lookup.
ProjectsDelete(p) ==
    /\ CanStartProjectReq(p)
    /\ \E u \in Owners, id \in ProjectUrlIds :
        LET r == [projectReqs[p] EXCEPT !.kind = "delete", !.userId = u, !.id = id]
        IN  projectReqs' = [projectReqs EXCEPT ![p] =
                IF FindProject(id, u) = NoProjectRow THEN ProjectAnswer(r, 404)
                ELSE [r EXCEPT !.pc = "delete_nullify"]]
    /\ UNCHANGED <<items, projects>>
    /\ UNCHANGED restOfProjects

\* Lines 164-168: the items of the project lose their projectId.
ProjectsDeleteNullify(p) ==
    /\ projectReqs[p].pc = "delete_nullify"
    /\ items' = UpdateManyProjectId(ItemsOfProject(projectReqs[p].id), NoProject)
    /\ projectReqs' = [projectReqs EXCEPT ![p] = [@ EXCEPT !.pc = "delete_run"]]
    /\ UNCHANGED projects
    /\ UNCHANGED restOfProjects

\* Lines 170-171: prisma.project.delete (it throws when the row is gone);
\* ON DELETE SET NULL clears the projectId of the items that still have it.
ProjectsDeleteRun(p) ==
    /\ projectReqs[p].pc = "delete_run"
    /\ IF \E pr \in projects : pr.id = projectReqs[p].id
       THEN /\ projects' = {pr \in projects : pr.id # projectReqs[p].id}
            /\ items' = UpdateManyProjectId(ItemsOfProject(projectReqs[p].id), NoProject)
            /\ projectReqs' = [projectReqs EXCEPT ![p] = ProjectAnswer(@, 204)]
       ELSE /\ projectReqs' = [projectReqs EXCEPT ![p] = ProjectAnswer(@, 500)]
            /\ UNCHANGED <<items, projects>>
    /\ UNCHANGED restOfProjects

\* POST /api/projects/:id/assign, lines 176-190: 400 without itemIds, 404
\* when the caller has no such project.
ProjectsAssign(p) ==
    /\ CanStartProjectReq(p)
    /\ \E u \in Owners, id \in ProjectUrlIds, ids \in ItemIdsInputs :
        LET r == [projectReqs[p] EXCEPT !.kind = "assign", !.userId = u, !.id = id,
                                        !.itemIds = ids]
        IN  projectReqs' = [projectReqs EXCEPT ![p] =
                IF ids = {} THEN ProjectAnswer(r, 400)
                ELSE IF FindProject(id, u) = NoProjectRow THEN ProjectAnswer(r, 404)
                ELSE [r EXCEPT !.pc = "assign_run"]]
    /\ UNCHANGED <<items, projects>>
    /\ UNCHANGED restOfProjects

\* Lines 192-197: updateMany on the caller's items among itemIds; it throws
\* when the project is gone and a row would get its id.
ProjectsAssignRun(p) ==
    /\ projectReqs[p].pc = "assign_run"
    /\ LET r == projectReqs[p]
           selected == {i \in items : i.id \in r.itemIds /\ i.userId = r.userId}
       IN  IF selected # {} /\ ~items_projectId_fkey(r.id)
           THEN /\ projectReqs' = [projectReqs EXCEPT ![p] = ProjectAnswer(@, 500)]
                /\ UNCHANGED items
           ELSE /\ items' = UpdateManyProjectId(selected, r.id)
                /\ projectReqs' = [projectReqs EXCEPT ![p] = ProjectAnswer(@, 200)]
    /\ UNCHANGED projects
    /\ UNCHANGED restOfProjects

\* POST /api/projects/:id/unassign, lines 202-218: updateMany on the
\* caller's items among itemIds that are in the project.
ProjectsUnassign(p) ==
    /\ CanStartProjectReq(p)
    /\ \E u \in Owners, id \in ProjectUrlIds, ids \in ItemIdsInputs :
        LET r == [projectReqs[p] EXCEPT !.kind = "unassign", !.userId = u, !.id = id,
                                        !.itemIds = ids]
            selected == {i \in items : i.id \in ids /\ i.userId = u /\ i.projectId = id}
        IN  IF ids = {}
            THEN /\ projectReqs' = [projectReqs EXCEPT ![p] = ProjectAnswer(r, 400)]
                 /\ UNCHANGED items
            ELSE /\ items' = UpdateManyProjectId(selected, NoProject)
                 /\ projectReqs' = [projectReqs EXCEPT ![p] = ProjectAnswer(r, 200)]
    /\ UNCHANGED projects
    /\ UNCHANGED restOfProjects

\* No project, no request yet.
ProjectsInit ==
    /\ projects = {}
    /\ projectReqs = [p \in ProjectProcs |-> IdleProjectReq]

\* The routes that write projectId: those of /api/projects and the POST and
\* PUT of /api/items.
ProjectsNext ==
    \/ \E p \in 1..NumProjectItemReqs : ItemsPost(p)
    \/ \E p \in 1..NumProjectItemReqs : ItemsPut(p)
    \/ \E p \in 1..NumProjectItemReqs : ItemsPutUpdate(p)
    \/ \E p \in ProjectProcs : ProjectsPost(p)
    \/ \E p \in ProjectProcs : ProjectsGet(p)
    \/ \E p \in ProjectProcs : ProjectsDelete(p)
    \/ \E p \in ProjectProcs : ProjectsDeleteNullify(p)
    \/ \E p \in ProjectProcs : ProjectsDeleteRun(p)
    \/ \E p \in ProjectProcs : ProjectsAssign(p)
    \/ \E p \in ProjectProcs : ProjectsAssignRun(p)
    \/ \E p \in ProjectProcs : ProjectsUnassign(p)



(* ======================= /api/color-schemes ============================ *)
(* A color scheme with the orderIndex values of its step rows, in the      *)
(* order of the payload that created them.  The other columns are left out.*)

SchemeProcs == 1..NumSchemeReqs

\* The orderIndex values the clients send; 0 is not positive.
IndexInputs == 0..MaxIndex

\* The steps arrays the clients send.
StepsInputs == UNION {[1..n -> IndexInputs] : n \in 0..MaxSteps}

\* The bodies: with a steps array, or without the field.
SchemeBodies == [hasSteps : {TRUE}, steps : StepsInputs] \cup {[hasSteps |-> FALSE, steps |-> <<>>]}

\* The :id of the urls the clients ask for: the scheme the first request made.
SchemeIdInputs == {1}

NoScheme == [id |-> 0, userId |-> 0, steps |-> <<>>]

IdleSchemeReq ==
    [kind |-> "idle", pc |-> "idle", userId |-> 0, id |-> 0, hasSteps |-> FALSE,
     steps |-> <<>>, existing |-> NoScheme, answer |-> 0, error |-> ""]

\* z.array(stepSchema).min(1), orderIndex: z.number().int().positive()
StepsParse(steps) == Len(steps) >= 1 /\ \A i \in DOMAIN steps : steps[i] > 0

\* createSchemeSchema: steps is required.
createSchemeSchema(body) == body.hasSteps /\ StepsParse(body.steps)

\* updateSchemeSchema: steps is optional.
updateSchemeSchema(body) == body.hasSteps => StepsParse(body.steps)

RECURSIVE SortAscending(_)
\* steps.map((s) => s.orderIndex).sort((a, b) => a - b)
SortAscending(seq) ==
    IF seq = <<>> THEN <<>>
    ELSE LET least == CHOOSE i \in DOMAIN seq : \A j \in DOMAIN seq : seq[i] <= seq[j]
         IN  <<seq[least]>> \o
             SortAscending([k \in 1..(Len(seq) - 1) |->
                                IF k < least THEN seq[k] ELSE seq[k + 1]])

\* A validation that looks for duplicates only.
validateStepOrder_DuplicatesOnly(steps) ==
    IF Cardinality({steps[i] : i \in DOMAIN steps}) # Len(steps)
    THEN "Duplicate orderIndex values found"
    ELSE ""

\* validateStepOrder: the error message, "" for null.
validateStepOrder(steps) ==
    LET indices == SortAscending(steps)
        unique == {indices[i] : i \in DOMAIN indices}
    IN  IF Cardinality(unique) # Len(indices)
        THEN "Duplicate orderIndex values found"
        ELSE IF \E i \in DOMAIN indices : indices[i] # i
        THEN "orderIndex must be contiguous starting from 1"
        ELSE ""

\* CREATE UNIQUE INDEX "color_scheme_steps_colorSchemeId_orderIndex_key"
color_scheme_steps_colorSchemeId_orderIndex_key(steps) ==
    \A i, j \in DOMAIN steps : steps[i] = steps[j] => i = j

\* prisma.colorScheme.findFirst({ where: { id, userId } })
FindScheme(id, userId) ==
    IF \E s \in schemes : s.id = id /\ s.userId = userId
    THEN CHOOSE s \in schemes : s.id = id /\ s.userId = userId
    ELSE NoScheme

SchemeExists(id) == \E s \in schemes : s.id = id

\* Requests arrive in the order of their numbers.
CanStartSchemeReq(p) ==
    /\ schemeReqs[p].pc = "idle"
    /\ \A q \in SchemeProcs : q < p => schemeReqs[q].pc # "idle"

\* res.status(s).json({ error })
SchemeAnswer(r, s, error) == [r EXCEPT !.pc = "done", !.answer = s, !.error = error]

\* POST /api/color-schemes, lines 109-140: 400 for a body that does not parse
\* or steps out of order, else the scheme is created with its steps (the
\* create throws on the unique index).
SchemesPost(p) ==
    /\ CanStartSchemeReq(p)
    /\ \E u \in Owners, body \in SchemeBodies :
        LET r == [schemeReqs[p] EXCEPT !.kind = "post", !.userId = u, !.id = p,
                                       !.hasSteps = body.hasSteps,
                                       !.steps = body.steps]
            orderError == validateStepOrder(body.steps)
        IN  IF ~createSchemeSchema(body)
            THEN /\ schemeReqs' = [schemeReqs EXCEPT ![p] =
                        SchemeAnswer(r, 400, "Validation failed")]
                 /\ UNCHANGED schemes
            ELSE IF orderError # ""
            THEN /\ schemeReqs' = [schemeReqs EXCEPT ![p] =
                        SchemeAnswer(r, 400, orderError)]
                 /\ UNCHANGED schemes
            ELSE IF ~color_scheme_steps_colorSchemeId_orderIndex_key(body.steps)
            THEN /\ schemeReqs' = [schemeReqs EXCEPT ![p] =
                        SchemeAnswer(r, 500, "unhandled rejection")]
                 /\ UNCHANGED schemes
            ELSE /\ schemes' = schemes \cup
                        {[id |-> p, userId |-> u, steps |-> body.steps]}
                 /\ schemeReqs' = [schemeReqs EXCEPT ![p] = SchemeAnswer(r, 201, "")]
    /\ UNCHANGED restOfSchemes

\* PUT /api/color-schemes/:id, lines 143-165: 400 for a body that does not
\* parse, 404, 400 for steps out of order.
SchemesPut(p) ==
    /\ CanStartSchemeReq(p)
    /\ \E u \in Owners, id \in SchemeIdInputs, body \in SchemeBodies :
        LET r == [schemeReqs[p] EXCEPT !.kind = "put", !.userId = u, !.id = id,
                                       !.hasSteps = body.hasSteps,
                                       !.steps = body.steps]
            existing == FindScheme(id, u)
            orderError == IF body.hasSteps THEN validateStepOrder(body.steps) ELSE ""
        IN  schemeReqs' = [schemeReqs EXCEPT ![p] =
                IF ~updateSchemeSchema(body)
                THEN SchemeAnswer(r, 400, "Validation failed")
                ELSE IF existing = NoScheme
                THEN SchemeAnswer(r, 404, "Color scheme not found")
                ELSE IF orderError # ""
                THEN SchemeAnswer([r EXCEPT !.existing = existing], 400, orderError)
                ELSE [r EXCEPT !.existing = existing, !.pc = "put_write"]]
    /\ UNCHANGED schemes
    /\ UNCHANGED restOfSchemes

\* Lines 167-187: with steps, the transaction deletes the old step rows and
\* creates the new ones; without, the scheme's own columns are updated.  Both
\* throw when the scheme is gone or the unique index refuses a step.
SchemesPutWrite(p) ==
    /\ schemeReqs[p].pc = "put_write"
    /\ IF SchemeExists(schemeReqs[p].id)
            /\ color_scheme_steps_colorSchemeId_orderIndex_key(schemeReqs[p].steps)
       THEN /\ schemes' =
                {IF s.id = schemeReqs[p].id /\ schemeReqs[p].hasSteps
                 THEN [s EXCEPT !.steps = schemeReqs[p].steps]
                 ELSE s : s \in schemes}
            /\ schemeReqs' = [schemeReqs EXCEPT ![p] = SchemeAnswer(@, 200, "")]
       ELSE /\ schemeReqs' = [schemeReqs EXCEPT ![p] =
                    SchemeAnswer(@, 500, "unhandled rejection")]
            /\ UNCHANGED schemes
    /\ UNCHANGED restOfSchemes

\* DELETE /api/color-schemes/:id, lines 192-200.
SchemesDelete(p) ==
    /\ CanStartSchemeReq(p)
    /\ \E u \in Owners, id \in SchemeIdInputs :
        LET r == [schemeReqs[p] EXCEPT !.kind = "delete", !.userId = u, !.id = id]
            existing == FindScheme(id, u)
        IN  schemeReqs' = [schemeReqs EXCEPT ![p] =
                IF existing = NoScheme
                THEN SchemeAnswer(r, 404, "Color scheme not found")
                ELSE [r EXCEPT !.existing = existing, !.pc = "delete_run"]]
    /\ UNCHANGED schemes
    /\ UNCHANGED restOfSchemes

\* Lines 201-202: prisma.colorScheme.delete; the steps go with the scheme.
SchemesDeleteRun(p) ==
    /\ schemeReqs[p].pc = "delete_run"
    /\ IF SchemeExists(schemeReqs[p].id)
       THEN /\ schemes' = {s \in schemes : s.id # schemeReqs[p].id}
            /\ schemeReqs' = [schemeReqs EXCEPT ![p] = SchemeAnswer(@, 204, "")]
       ELSE /\ schemeReqs' = [schemeReqs EXCEPT ![p] =
                    SchemeAnswer(@, 500, "unhandled rejection")]
            /\ UNCHANGED schemes
    /\ UNCHANGED restOfSchemes

\* Empty tables, no request yet.
SchemesInit ==
    /\ schemes = {}
    /\ schemeReqs = [p \in SchemeProcs |-> IdleSchemeReq]

SchemesNext ==
    \/ \E p \in SchemeProcs : SchemesPost(p)
    \/ \E p \in SchemeProcs : SchemesPut(p)
    \/ \E p \in SchemeProcs : SchemesPutWrite(p)
    \/ \E p \in SchemeProcs : SchemesDelete(p)
    \/ \E p \in SchemeProcs : SchemesDeleteRun(p)


(* ------------------------------ behaviours ----------------------------- *)

Next ==
    \/ Tick
    \/ \E p \in Procs : Signup(p)
    \/ \E p \in Procs : SignupCreateUser(p)
    \/ \E p \in Procs : SignupIssue(p)
    \/ \E p \in Procs : SignupStore(p)
    \/ \E p \in Procs : Login(p)
    \/ \E p \in Procs : LoginIssue(p)
    \/ \E p \in Procs : LoginStore(p)
    \/ \E p \in Procs : Refresh(p)
    \/ \E p \in Procs : RefreshFind(p)
    \/ \E p \in Procs : RefreshCheck(p)
    \/ \E p \in Procs : RefreshDelete(p)
    \/ \E p \in Procs : RefreshIssue(p)
    \/ \E p \in Procs : RefreshStore(p)
    \/ \E p \in Procs : Logout(p)
    \/ \E p \in Procs : LogoutDelete(p)
    \/ \E p \in Procs : Protected(p)
    \/ \E p \in Procs : AccountDelete(p)

\* The server, started without JWT settings in its environment.
Init == AuthInit /\ env = UnsetEnv /\ ClientOff /\ ItemsInit /\ ProjectsInit /\ SchemesInit

Spec == Init /\ [][Next]_vars

\* The same server started with any of the environments.
InitEnv == AuthInit /\ env \in Envs /\ ClientOff /\ ItemsInit /\ ProjectsInit /\ SchemesInit

SpecEnv == InitEnv /\ [][Next]_vars

\* One browser tab against the server.
InitClient == AuthInit /\ env = UnsetEnv /\ ClientInit /\ ItemsInit /\ ProjectsInit /\ SchemesInit

SpecClient == InitClient /\ [][ClientNext]_vars

\* Every request is answered and every answer is taken in: the network
\* delivers, and the browser runs the handler of an arrived response.
ClientFairness ==
    \A c \in Calls :
        /\ WF_vars(ServerApi(c))
        /\ WF_vars(ServerLogin(c))
        /\ WF_vars(ServerExchange(c))
        /\ WF_vars(ReceiveAnswer(c))
        /\ WF_vars(ReceiveUnauthorized(c))
        /\ WF_vars(ReceiveRefresh(c))
        /\ WF_vars(ReceiveRetry(c))

SpecClientFair == InitClient /\ [][ClientNext]_vars /\ ClientFairness

\* The requests to /api/items.
SpecItems == Init /\ [][ItemsNext]_vars

\* The requests to /api/projects, and those to /api/items that write
\* projectId.
SpecProjects == Init /\ [][ProjectsNext]_vars

\* The requests to /api/color-schemes.
SpecSchemes == Init /\ [][SchemesNext]_vars

(* =============================== claims ================================ *)

Finished(p, kind) == req[p].kind = kind /\ Done(p)

\* The requests of one kind that were answered.
FinishedOf(kind) == {p \in Procs : Finished(p, kind)}

\* C1: of the exchanges that present the same refresh token while it is
\* Active, exactly one is answered 200 and every other one 401.
C1_ExactlyOneExchangeSucceeds ==
    \A tok \in {req[p].token : p \in FinishedOf("refresh")} :
        LET S == {p \in FinishedOf("refresh") : req[p].token = tok /\ req[p].wasActive}
        IN  Cardinality(S) >= 2 =>
                /\ Cardinality({p \in S : req[p].status = 200}) = 1
                /\ \A p \in S : req[p].status \in {200, 401}

\* C2: a successful exchange of T returns a refresh token string other than
\* T, and every exchange of T that starts after a successful one is answered
\* 401.
C2_ExchangeRotatesTheString ==
    \A p \in FinishedOf("refresh") :
        req[p].status = 200 =>
            /\ req[p].refreshToken # req[p].token
            /\ \A q \in FinishedOf("refresh") :
                (req[q].token = req[p].token /\ p \in req[q].before)
                    => req[q].status = 401

\* C3: no two live rows of the registry hold the same token string.
C3_UniqueTokenStrings ==
    \A r1, r2 \in refreshTokens : r1.token = r2.token => r1 = r2

\* C3 witness: two rows are live and a login's insert was refused because a
\* live row already held the string it had signed.
C3_Witness ==
    /\ Cardinality(refreshTokens) >= 2
    /\ \E p \in FinishedOf("login") :
        /\ req[p].status = 500
        /\ \E r \in refreshTokens : r.token = req[p].newRefresh

\* The success status of each issuing route.
Issued(r) ==
    \/ r.kind = "signup" /\ r.status = 201
    \/ r.kind = "login" /\ r.status = 200
    \/ r.kind = "refresh" /\ r.status = 200

\* The account an issuing request acts for: the one signup created, the one
\* login verified, the owner of the row the exchange retired.
AccountOf(r) ==
    IF r.kind = "signup" THEN r.createdUser
    ELSE IF r.kind = "login" THEN r.user.id
    ELSE r.stored.userId

\* C4: the step in which a signup, login or refresh gets its success answer
\* adds exactly one row to the registry, a row that was not there, holding the
\* refresh token of the answer and owned by the account of the request.
C4_OneRowPerIssuance ==
    [][\A p \in Procs :
        (~Done(p) /\ req'[p].pc = "done" /\ Issued(req'[p])) =>
            \E row \in refreshTokens' \ refreshTokens :
                /\ refreshTokens' = refreshTokens \cup {row}
                /\ \A r \in refreshTokens : r.id # row.id
                /\ row.token = req'[p].refreshToken
                /\ row.userId = AccountOf(req'[p])
                /\ req'[p].created = {row}]_vars

\* C4 witness: an exchange succeeded in the very second its token was issued
\* in, a second issuance for the same account in one clock second.
C4_Witness ==
    \E p \in FinishedOf("refresh") :
        /\ req[p].status = 200
        /\ req[p].refreshToken.iat = req[p].token.iat
        /\ Cardinality(req[p].created) = 1

\* C5: a logout is answered 200 with the same body whatever token it
\* presents, it removes no row whose token string is not the presented one,
\* and removing twice leaves the registry as removing once does.
C5_LogoutIdempotent ==
    /\ \A p \in FinishedOf("logout") :
        /\ req[p].status = 200
        /\ req[p].message = "Logged out"
        /\ \A r \in req[p].removed : r.token = req[p].token
    /\ \A tok \in ReturnedRefresh \cup {Forged, Absent} :
        LET once == refreshTokens \ LogoutRemoves(refreshTokens, tok)
            twice == once \ LogoutRemoves(once, tok)
        IN  /\ twice = once
            /\ \A r \in refreshTokens \ once : r.token = tok

\* C5 witness: a logout removed the row of an Active token while a row with
\* another token string stayed in the registry.
C5_Witness ==
    \E p \in FinishedOf("logout") :
        /\ req[p].removed # {}
        /\ \E r \in refreshTokens : r.token # req[p].token

\* Two requests that were in flight at the same time.
Overlap(p, q) == p \notin req[q].before /\ q \notin req[p].before

\* C6: no exchange of T that starts after a logout of T was answered
\* succeeds, and when a logout of T and an exchange of T are in flight
\* together, never do both the logout remove a row and the exchange get 200.
C6_RevokedTokenNeverExchanged ==
    \A p \in FinishedOf("logout"), q \in FinishedOf("refresh") :
        (req[p].token = req[q].token /\ req[q].status = 200) =>
            /\ p \notin req[q].before
            /\ Overlap(p, q) => req[p].removed = {}

\* What the caller of a request sees.
Observable(r) ==
    [status |-> r.status, message |-> r.message, accessToken |-> r.accessToken,
     refreshToken |-> r.refreshToken, userId |-> r.userId]

WellFormed(r) == signupSchema([email |-> r.email, password |-> r.password])

\* A login for an email that was not registered when it was looked up.
UnknownEmailLogin(p) ==
    Finished(p, "login") /\ WellFormed(req[p]) /\ req[p].user = NoUser

\* A login for a registered email whose password does not match the hash.
WrongPasswordLogin(p) ==
    /\ Finished(p, "login") /\ WellFormed(req[p]) /\ req[p].user # NoUser
    /\ ~BcryptCompare(req[p].password, req[p].user.passwordHash)

\* C7: a login for an unregistered email and a login with a password that
\* does not match are both answered 401 with the identical body, and neither
\* creates a registry row.
C7_LoginFailuresIndistinguishable ==
    /\ \A p \in Procs :
        (UnknownEmailLogin(p) \/ WrongPasswordLogin(p)) =>
            /\ req[p].status = 401
            /\ req[p].created = {}
            /\ \A r \in refreshTokens : r.token # req[p].newRefresh
    /\ \A p, q \in Procs :
        (UnknownEmailLogin(p) /\ WrongPasswordLogin(q)) =>
            Observable(req[p]) = Observable(req[q])

\* C7 witness: both kinds of failed login were answered.
C7_Witness ==
    /\ \E p \in Procs : UnknownEmailLogin(p)
    /\ \E q \in Procs : WrongPasswordLogin(q)

\* The account a signup created is still there.
AccountLives(p) == \E u \in users : u.id = req[p].createdUser

\* The lookup of a signup found no account with its email.
EmailWasFree(p) == req[p].user = NoUser \/ req[p].createdUser # 0

\* C8: a signup for an email nobody holds, with no other request in flight
\* beside it, is answered 201; a signup that starts after it was answered, for the
\* same email, is answered 409 and creates neither an account nor a row, and
\* one account holds the email afterwards.
C8_SecondSignupConflicts ==
    /\ \A p \in FinishedOf("signup") :
        (/\ WellFormed(req[p])
         /\ EmailWasFree(p)
         /\ \A q \in Procs \ {p} : req[q].kind = "idle" \/ ~Overlap(p, q))
            => req[p].status = 201 /\ req[p].createdUser # 0
    /\ \A p, q \in FinishedOf("signup") :
        (/\ req[p].status = 201
         /\ p \in req[q].before
         /\ req[q].email = req[p].email
         /\ WellFormed(req[q])
         /\ AccountLives(p))
            => /\ req[q].status = 409
               /\ req[q].createdUser = 0
               /\ req[q].created = {}
               /\ Cardinality({u \in users : u.email = req[p].email}) = 1

\* C8 witness: a signup was answered 201 and a later one for the same email 409.
C8_Witness ==
    \E p, q \in FinishedOf("signup") :
        /\ req[p].status = 201 /\ req[q].status = 409
        /\ p \in req[q].before /\ req[q].email = req[p].email
        /\ AccountLives(p)

\* C9: after a signup answered 201, a login with the same email and the same
\* password is answered 200 with the account id of the signup, and a login with
\* the same email and any other password is answered 401.
C9_SignupThenLogin ==
    \A p \in FinishedOf("signup"), q \in FinishedOf("login") :
        (/\ req[p].status = 201
         /\ p \in req[q].before
         /\ req[q].email = req[p].email
         /\ WellFormed(req[q])
         /\ AccountLives(p))
            => IF req[q].password = req[p].password
               THEN req[q].status = 200 /\ req[q].userId = req[p].userId
               ELSE req[q].status = 401

\* The header carries a bearer token that passes access-key verification.
Authenticates(r, clock) ==
    r.scheme = "Bearer " /\ r.token.key = JWT_SECRET /\ clock < r.token.exp

\* C10: the middleware step of a protected request either answers 401 and
\* calls no handler, or calls the handler once with the claims of the verified
\* token attached; it changes no table and puts no token in the answer, and no
\* later step of the request calls the handler again.
C10_GatekeeperRejectsOrAttaches ==
    [][\A p \in Procs :
        /\ (req[p].pc = "idle" /\ req'[p].kind = "protected") =>
            /\ UNCHANGED <<users, refreshTokens, nextId>>
            /\ IF Authenticates(req'[p], now)
               THEN /\ req'[p].handlerCalls = 1
                    /\ req'[p].reqUserId = req'[p].token.userId
                    /\ req'[p].reqUserEmail = req'[p].token.email
                    /\ req'[p].status # 401
               ELSE /\ req'[p].handlerCalls = 0
                    /\ req'[p].pc = "done" /\ req'[p].status = 401
                    /\ req'[p].reqUserId = 0
        /\ req[p].kind = "protected" =>
            /\ req'[p].handlerCalls = req[p].handlerCalls
            /\ req'[p].reqUserId = req[p].reqUserId
            /\ req'[p].reqUserEmail = req[p].reqUserEmail
            /\ req'[p].accessToken = Absent /\ req'[p].refreshToken = Absent
            /\ req'[p].created = {}]_vars

\* C10 witness: one protected request reached its handler, and one that
\* carried an access token past its expiry was answered 401.
C10_Witness ==
    /\ \E p \in FinishedOf("protected") :
        req[p].handlerCalls = 1 /\ req[p].reqUserId = req[p].token.userId
    /\ \E q \in FinishedOf("protected") :
        /\ req[q].status = 401 /\ req[q].handlerCalls = 0
        /\ req[q].scheme = "Bearer " /\ req[q].token.key = JWT_SECRET

\* C11: a refresh token presented as the bearer credential is answered 401 by
\* the gatekeeper, and an access token presented to POST /auth/refresh is
\* answered 401, whatever environment the server was started with.
C11_KeysSeparateTokenKinds ==
    /\ \A p \in FinishedOf("protected") :
        (req[p].scheme = "Bearer " /\ req[p].token \in ReturnedRefresh)
            => req[p].status = 401
    /\ \A p \in FinishedOf("refresh") :
        req[p].token \in ReturnedAccess => req[p].status = 401

\* A DELETE /api/account that was answered 200 for the account `userId`.
AccountDeleted(userId) ==
    \E p \in FinishedOf("protected") :
        req[p].route = "account" /\ req[p].status = 200 /\ req[p].reqUserId = userId

\* C18: once DELETE /api/account was answered for an account, the registry
\* holds no row owned by it, and no exchange of a refresh token issued to it is
\* answered 200 any more, an exchange that had already begun included.
C18_AccountDeletionEndsSessions ==
    /\ [](\A r \in refreshTokens : ~AccountDeleted(r.userId))
    /\ [][\A q \in Procs :
            (req[q].kind = "refresh" /\ ~Done(q)
                /\ req'[q].pc = "done" /\ req'[q].status = 200)
            => ~AccountDeleted(req[q].token.userId)]_vars

\* An exchange had deleted the presented row when the account was deleted, and
\* was answered 401 afterwards.
C18_Witness ==
    \E q \in FinishedOf("refresh") :
        /\ req[q].removed # {}
        /\ req[q].status = 401
        /\ AccountDeleted(req[q].token.userId)
        /\ \A u \in users : u.id # req[q].token.userId
        /\ \E p \in FinishedOf("protected") :
            /\ req[p].route = "account" /\ req[p].removed = {}
            /\ req[p].reqUserId = req[q].token.userId
            /\ p \notin req[q].before

(* ------------------------- claims on the client ------------------------ *)

\* The answer of POST /auth/refresh for call c is taken in by the client.
RefreshAnswerTaken(c) ==
    calls[c].pc = "refresh_answered" /\ calls'[c].pc # "refresh_answered"

\* C12: when a call to a protected route is answered 401 and the refresh
\* succeeds, the client stores the new access and refresh tokens, transmits
\* the original request exactly once more, with the new access token, and the
\* caller gets the answer of that retransmission, never the first 401.
C12_RefreshedCallIsRetriedOnce ==
    /\ [](\A c \in Calls :
            calls[c].refreshStatus = 200 =>
                /\ calls[c].firstStatus = 401
                /\ calls[c].sends = 2
                /\ calls[c].newToken # NoToken
                /\ calls[c].retryAuthorization = calls[c].newToken
                /\ calls[c].pc \in {"retry_sent", "retry_answered", "done"}
                /\ calls[c].pc = "done" =>
                    /\ calls[c].retryStatus # 0
                    /\ calls[c].result = calls[c].retryStatus)
    /\ [][\A c \in Calls :
            (RefreshAnswerTaken(c) /\ calls[c].response.status = 200) =>
                /\ client'.accessToken = calls[c].response.accessToken
                /\ client'.refreshToken = calls[c].response.refreshToken
                /\ accessToken' = calls[c].response.accessToken
                /\ calls'[c].refreshStatus = 200]_vars

\* A call was answered 401, refreshed, was retried and handed 200 to its caller.
C12_Witness ==
    \E c \in Calls :
        /\ calls[c].pc = "done"
        /\ calls[c].firstStatus = 401
        /\ calls[c].refreshStatus = 200
        /\ calls[c].result = 200

\* C13: a call starts at most one refresh and is transmitted at most twice (a
\* retry answered 401 starts no second refresh), and every call the application
\* made is eventually completed.
C13_OneRefreshTwoTransmissions ==
    /\ [](\A c \in Calls : calls[c].refreshes <= 1 /\ calls[c].sends <= 2)
    /\ \A c \in Calls : (calls[c].pc # "idle") ~> (calls[c].pc = "done")

\* A retry was answered 401 and the call ended there.
C13_Witness ==
    \E c \in Calls :
        /\ calls[c].pc = "done"
        /\ calls[c].sends = 2
        /\ calls[c].retryStatus = 401
        /\ calls[c].refreshes = 1

\* Call c ends in this step on the failure of its refresh: no refresh token
\* was held when its 401 arrived, or POST /auth/refresh was answered an error.
RefreshFailed(c) ==
    /\ calls[c].url = ItemsUrl
    /\ calls'[c].pc = "done"
    /\ \/ calls[c].pc = "answered" /\ calls[c].response.status = 401
       \/ calls[c].pc = "refresh_answered"

\* C14: when the refresh of a call answered 401 fails, the client is left with
\* no access token, no refresh token and no user, the original request is not
\* transmitted again, and the caller gets the original 401.
C14_FailedRefreshLogsOut ==
    [][\A c \in Calls :
        RefreshFailed(c) =>
            /\ client' = LoggedOutClient
            /\ calls'[c].sends = 1
            /\ calls'[c].retryAuthorization = NoToken
            /\ calls'[c].result = 401]_vars

\* One call ended on a rejected exchange, another on holding no refresh token.
C14_Witness ==
    \E c, d \in Calls :
        /\ calls[c].pc = "done" /\ calls[c].refreshStatus = 401
        /\ calls[c].result = 401
        /\ calls[d].pc = "done" /\ calls[d].refreshes = 0
        /\ calls[d].url = ItemsUrl /\ calls[d].result = 401
        /\ client = LoggedOutClient

\* C15: a request to an auth endpoint (signup, login, refresh, logout) leaves
\* without an Authorization header, and a 401 answer to it starts no refresh
\* and no retransmission.
C15_AuthEndpointsPassThrough ==
    /\ \A c \in Calls :
        /\ calls[c].refreshAuthorization = NoToken
        /\ calls[c].url \in {LoginUrl, SignupUrl} =>
            /\ calls[c].authorization = NoToken
            /\ calls[c].refreshes = 0
            /\ calls[c].sends <= 1
            /\ calls[c].pc \in {"idle", "sent", "answered", "done"}
            /\ calls[c].pc = "done" => calls[c].result = calls[c].firstStatus
    /\ \A post \in logoutPosts : post.authorization = NoToken

\* A login made while an access token was held was answered 401.
C15_Witness ==
    \E c \in Calls :
        /\ calls[c].url = LoginUrl
        /\ calls[c].pc = "done"
        /\ calls[c].result = 401
        /\ accessToken # NoToken
        /\ \A d \in Calls \ {c} : calls[d].pc = "idle"

\* C16: a call whose 401 arrives while the exchange of another call is in
\* flight (an exchange of a token that was Active when it was sent) sends no
\* exchange of its own, and is retried with the access token that exchange
\* returned.
C16_ConcurrentUnauthorizedShareOneExchange ==
    \A d \in Calls : \A c \in calls[d].peers :
        calls[c].heldActive =>
            /\ calls[d].refreshes = 0
            /\ (calls[d].pc = "done" /\ calls[c].refreshStatus = 200) =>
                calls[d].retryAuthorization = calls[c].newToken

\* C17: a call that was waiting on a refresh when the user logged out is not
\* transmitted again and ends with the authentication failure, also when the
\* answer of the refresh arrives later with a new pair.
C17_LogoutCancelsWaitingCalls ==
    \A c \in Calls :
        calls[c].loggedOut =>
            /\ calls[c].sends = 1
            /\ calls[c].pc = "done" => calls[c].result = 401

\* A login() or signup() of this page got its pair.
LoggedIn(c) ==
    /\ calls[c].url \in {LoginUrl, SignupUrl}
    /\ calls[c].pc = "done" /\ calls[c].result \in {200, 201}

\* C27: after logout() ran, the client holds no access token, no refresh
\* token and no user for as long as no login or signup succeeds, also when the
\* answer of a refresh that was waiting at the logout arrives afterwards.
C27_LoggedOutUntilNextLogin ==
    \A c \in Calls :
        (calls[c].loggedOut /\ \A d \in Calls : ~LoggedIn(d)) =>
            /\ client = LoggedOutClient
            /\ accessToken = NoToken

(* --------------------------- claims on items --------------------------- *)

\* C19: every status change of an item is in its history: whenever an item has
\* history rows, its status is the toStatus of the most recent one.
C19_StatusIsLastHistoryEntry ==
    \A i \in items :
        LET h == HistoryOf(i.id)
        IN  h # <<>> => i.status = h[Len(h)].toStatus

\* C30: when PATCH /items/:id/status requests interleave (and no PUT writes
\* the status), the history rows of an item form a chain: no row has
\* fromStatus = toStatus, every row's fromStatus is the toStatus of the row
\* before it, and the last toStatus is the status of the item.
C30_HistoryIsAChain ==
    (\A q \in ItemProcs : itemReqs[q].kind # "put") =>
        \A i \in items :
            LET h == HistoryOf(i.id)
            IN  /\ \A k \in 1..Len(h) : h[k].fromStatus # h[k].toStatus
                /\ \A k \in 2..Len(h) : h[k].fromStatus = h[k - 1].toStatus
                /\ Len(h) > 0 => h[Len(h)].toStatus = i.status

(* -------------------------- claims on projects ------------------------- *)

\* C29: every item with a projectId belongs to the user the project belongs
\* to, and a GET of a project answers with items of the caller only and with
\* the completion of those items.
C29_TenantIsolation ==
    /\ \A i \in items :
        i.projectId # NoProject =>
            \E pr \in projects : pr.id = i.projectId /\ pr.userId = i.userId
    /\ \A p \in ProjectProcs :
        (projectReqs[p].kind = "get" /\ projectReqs[p].answer = 200) =>
            LET own == {i \in projectReqs[p].included : i.userId = projectReqs[p].userId}
            IN  /\ projectReqs[p].included = own
                /\ projectReqs[p].completion = computeCompletion(own)

(* ----------------------- claims on color schemes ----------------------- *)

\* The orderIndex values are exactly 1..n: none twice, none missing.
ExactlyOneToN(steps) == {steps[i] : i \in DOMAIN steps} = 1..Len(steps)

\* A steps array of positive indices with a duplicate or a gap.
OutOfOrder(steps) == StepsParse(steps) /\ ~ExactlyOneToN(steps)

\* C20: the steps of every stored color scheme have the orderIndex values
\* 1..n; a POST, or a PUT on a scheme of the caller, whose steps have a
\* duplicate or a gap is answered 400, never 2xx, and the step that answers 400
\* leaves the stored schemes and their steps as they were.
C20_StepsAreOneToN ==
    /\ [](\A s \in schemes : Len(s.steps) >= 1 /\ ExactlyOneToN(s.steps))
    /\ [](\A p \in SchemeProcs :
            (schemeReqs[p].pc = "done" /\ schemeReqs[p].hasSteps
                /\ OutOfOrder(schemeReqs[p].steps)) =>
                /\ schemeReqs[p].answer \in {400, 404}
                /\ schemeReqs[p].kind = "post" => schemeReqs[p].answer = 400
                /\ schemeReqs[p].existing # NoScheme => schemeReqs[p].answer = 400)
    /\ [][\A p \in SchemeProcs :
            (schemeReqs[p].answer = 0 /\ schemeReqs'[p].answer = 400)
                => UNCHANGED schemes]_vars

\* A scheme is stored with steps sent out of sequence, and a PUT on it of
\* steps with a gap was answered 400.
C20_Witness ==
    \E p \in SchemeProcs : \E s \in schemes :
        /\ schemeReqs[p].kind = "put" /\ schemeReqs[p].pc = "done"
        /\ schemeReqs[p].existing = s
        /\ s.steps = <<2, 1>>
        /\ schemeReqs[p].steps = <<1, 3>>
        /\ schemeReqs[p].answer = 400

(* ---------------------- claims on the refresh route -------------------- *)

\* C21: retiring a row and creating its replacement is one atomic step: in no
\* state has an exchange deleted the row of the presented token without the
\* row of its replacement having been created.
C21_RetireAndReplaceAtomic ==
    \A p \in Procs :
        (req[p].kind = "refresh" /\ req[p].removed # {}) => req[p].created # {}

\* An exchange of a non-empty token that was rejected.
RejectedExchange(p) ==
    Finished(p, "refresh") /\ refreshSchema(req[p].token) /\ req[p].status # 200

\* C24: every rejected exchange of a non-empty refresh token gets the same
\* answer, status 401 with one error message, whatever made it fail: the
\* answer a token with a bad signature gets.
C24_ExchangeFailuresIndistinguishable ==
    \A p \in Procs :
        RejectedExchange(p) =>
            /\ req[p].status = 401
            /\ Observable(req[p]) = Observable(RefreshCatch(req[p]))

\* C25: an exchange whose token fails the signature check reads and writes no
\* row, and an exchange that is not answered 200 has removed no row, created
\* none and carries no token in its answer.
C25_FailedExchangeLeavesRegistry ==
    \A p \in FinishedOf("refresh") :
        /\ req[p].payload = NoPayload =>
            req[p].stored = NoRow /\ req[p].removed = {} /\ req[p].created = {}
        /\ req[p].status # 200 =>
            /\ req[p].removed = {} /\ req[p].created = {}
            /\ req[p].accessToken = Absent /\ req[p].refreshToken = Absent

\* C28: every row of the registry is owned by the account its token string
\* names and that account exists, and the pair a successful exchange returns
\* and the row it creates are for the account that owned the retired row.
C28_RowOwnerMatchesTokenClaim ==
    /\ \A r \in refreshTokens :
        /\ r.userId = r.token.userId
        /\ \E u \in users : u.id = r.userId
    /\ \A p \in FinishedOf("refresh") :
        req[p].status = 200 =>
            /\ req[p].refreshToken.userId = req[p].stored.userId
            /\ req[p].accessToken.userId = req[p].stored.userId
            /\ \A row \in req[p].created : row.userId = req[p].stored.userId

\* C28 witness: an exchange succeeded and its replacement row is in the
\* registry beside a row that another account owns.
C28_Witness ==
    \E p \in FinishedOf("refresh") :
        /\ req[p].status = 200
        /\ req[p].created # {} /\ req[p].created \subseteq refreshTokens
        /\ \E r \in refreshTokens : r.userId # req[p].stored.userId

(* ------------------------- claims on signup ---------------------------- *)

\* C22: whatever the interleaving of signups with the same email, at most one
\* account holds the email, and every well-formed signup is answered 201 or
\* 409, never with an unhandled storage error.
C22_ConcurrentSignupsConflict ==
    /\ \A u1, u2 \in users : u1.email = u2.email => u1 = u2
    /\ \A p \in FinishedOf("signup") :
        WellFormed(req[p]) => req[p].status \in {201, 409}

\* The email with its letters in lower case.
ToLowerCase(email) == IF email = "A@x.com" THEN "a@x.com" ELSE email

\* Two emails that differ in letter case only.
CaseVariants(e1, e2) == e1 # e2 /\ ToLowerCase(e1) = ToLowerCase(e2)

\* C23: email uniqueness is case-insensitive: after a signup answered 201, a
\* signup with an email that differs from its email only in letter case is
\* answered 409 and creates no account, and a login with such an email and
\* the password of the signup is answered 200 for the same account.
C23_EmailCaseInsensitive ==
    \A p \in FinishedOf("signup"), q \in Procs :
        (/\ req[p].status = 201
         /\ Done(q) /\ p \in req[q].before
         /\ CaseVariants(req[p].email, req[q].email)
         /\ WellFormed(req[q])
         /\ AccountLives(p))
            => /\ req[q].kind = "signup" =>
                    req[q].status = 409 /\ req[q].createdUser = 0
               /\ (req[q].kind = "login" /\ req[q].password = req[p].password) =>
                    req[q].status = 200 /\ req[q].userId = req[p].userId

(* ------------------------ claims on the lifetimes ---------------------- *)

\* C26: whatever refresh lifetime the server is configured with, the expiry
\* stored in a row of the registry is the expiry embedded in its token
\* string, so no row is live while the signature of its token has expired.
C26_StoredExpiryIsEmbeddedExpiry ==
    \A r \in refreshTokens :
        /\ r.expiresAt = r.token.exp
        /\ now < r.expiresAt => verifyRefreshToken(r.token, now)

====
